---- MODULE Spec2Model ----
(***************************************************************************)
(* Model of the ZTP API web app (src/app.py): the data.json document       *)
(* store, its validation, and the CSV export / import transforms.          *)
(*                                                                         *)
(* Encoding of the Python values.                                          *)
(*   key      : a sequence of text tokens; the tokens "/" and " " stand    *)
(*              for the slash and a whitespace character, every other      *)
(*              token is a run of other characters.  "" is <<>>.           *)
(*   scalar   : [t, s]  t in {"str","bool","num","null"}, s its text       *)
(*   value    : [t, s, o]  a scalar (o = <<>>) or t = "obj" with o the     *)
(*              ordered pairs [k, v] of an OrderedDict of scalars          *)
(*   entry    : [isObj, kv]  kv the ordered pairs [k, v] of an OrderedDict *)
(*   document : [isList, items]                                            *)
(***************************************************************************)
EXTENDS Integers, Sequences, FiniteSets, TLC

VARIABLES
    disk,      \* data.json: [exists, bytes]
    req,       \* the request served last: [op]
    resp,      \* its response: [kind, exc, msg, json, csv]
    data,      \* validate: the parsed value handed to validate
    result,    \* validate: "pending", or what validate raised / "Ok"
    coll,      \* csv: the collection exported
    table,     \* csv: the CSV text, as [hasHeader, headers, rows]
    back,      \* csv: what the import reconstructs from table
    phase,     \* csv: "stored" or "uploaded", then "exported", "imported", "reimported"
    fh,        \* concurrent: per request thread [pc, buf, pos, seen]
    saves      \* concurrent: the texts whose save ended, in order

vars == <<disk, req, resp, data, result, coll, table, back, phase, fh, saves>>

storeVars == <<disk, req, resp>>
validateVars == <<data, result>>
csvVars == <<coll, table, back, phase>>
concVars == <<fh, saves>>

----------------------------------------------------------------------------
(* Bounds *)

MaxEntries == 2
MaxCols == 2
NumThreads == 2

----------------------------------------------------------------------------
(* Values *)

Key(tok) == <<tok>>
EmptyKey == <<>>
SpaceKey == <<" ">>
StackKey == <<"stack">>
SubstKey == <<"subst">>

Scalar(t, s) == [t |-> t, s |-> s]
Str(s) == [t |-> "str", s |-> s, o |-> <<>>]
Bool(b) == [t |-> "bool", s |-> IF b THEN "true" ELSE "false", o |-> <<>>]
Num(s) == [t |-> "num", s |-> s, o |-> <<>>]
Null == [t |-> "null", s |-> "", o |-> <<>>]
Obj(pairs) == [t |-> "obj", s |-> "", o |-> pairs]
NP(k, v) == [k |-> k, v |-> Scalar(v.t, v.s)]
P(k, v) == [k |-> k, v |-> v]
Entry(pairs) == [isObj |-> TRUE, kv |-> pairs]
NotAnObject == [isObj |-> FALSE, kv |-> <<>>]
List(items) == [isList |-> TRUE, items |-> items]
NotAList == [isList |-> FALSE, items |-> <<>>]

IsOrderedDict(v) == v.t = "obj"

HasKey(pairs, k) == \E i \in 1..Len(pairs) : pairs[i].k = k
IndexOf(pairs, k) == CHOOSE i \in 1..Len(pairs) : pairs[i].k = k
Get(pairs, k) == pairs[IndexOf(pairs, k)].v

SeqsUpTo(S, n) == UNION {[1..m -> S] : m \in 0..n}

----------------------------------------------------------------------------
(* validate (src/app.py 259-287) *)

Ok == "Ok"
ExpectingArrayOfObjects == "Expecting JSON array of objects"
InvalidStackShape == "Stack must be JSON object"
InvalidSubstShape == "Subst must be JSON object"
EmptyObjectNotAllowed == "Empty JSON object not allowed"
EmptyKeyNotAllowed == "Empty JSON keys not allowed"
TooManyDefaults == "Maximum of one object without stack key is allowed"

\* not k or k.isspace()
IsBlankKey(k) == k = <<>> \/ \A i \in 1..Len(k) : k[i] = " "

\* 0 in [len(v) for v in my.values() if isinstance(v, OrderedDict)]
HasEmptyObject(my) ==
    \E i \in 1..Len(my.kv) : IsOrderedDict(my.kv[i].v) /\ Len(my.kv[i].v.o) = 0

\* len([k for k in my if not k or k.isspace()]) > 0
HasBlankKey(my) == \E i \in 1..Len(my.kv) : IsBlankKey(my.kv[i].k)

\* the body of the loop over the entries, up to the default count
CheckEntryKeysFirst(my) ==
    IF ~my.isObj THEN ExpectingArrayOfObjects
    ELSE IF HasKey(my.kv, StackKey) /\ ~IsOrderedDict(Get(my.kv, StackKey))
        THEN InvalidStackShape
    ELSE IF HasKey(my.kv, SubstKey) /\ ~IsOrderedDict(Get(my.kv, SubstKey))
        THEN InvalidSubstShape
    ELSE IF HasBlankKey(my) THEN EmptyKeyNotAllowed
    ELSE IF HasEmptyObject(my) THEN EmptyObjectNotAllowed
    ELSE Ok

CheckEntryNoShapes(my) ==
    IF ~my.isObj THEN ExpectingArrayOfObjects
    ELSE IF HasEmptyObject(my) THEN EmptyObjectNotAllowed
    ELSE IF HasBlankKey(my) THEN EmptyKeyNotAllowed
    ELSE Ok

CheckEntry(my) ==
    IF ~my.isObj THEN ExpectingArrayOfObjects
    ELSE IF HasKey(my.kv, StackKey) /\ ~IsOrderedDict(Get(my.kv, StackKey))
        THEN InvalidStackShape
    ELSE IF HasKey(my.kv, SubstKey) /\ ~IsOrderedDict(Get(my.kv, SubstKey))
        THEN InvalidSubstShape
    ELSE IF HasEmptyObject(my) THEN EmptyObjectNotAllowed
    ELSE IF HasBlankKey(my) THEN EmptyKeyNotAllowed
    ELSE Ok

RECURSIVE ValidateFrom(_, _, _)
ValidateFrom(items, i, num_defaults) ==
    IF i > Len(items)
    THEN IF num_defaults > 1 THEN TooManyDefaults ELSE Ok
    ELSE IF CheckEntry(items[i]) # Ok THEN CheckEntry(items[i])
    ELSE ValidateFrom(items, i + 1,
                      IF HasKey(items[i].kv, StackKey)
                      THEN num_defaults ELSE num_defaults + 1)

validate(d) ==
    IF ~d.isList THEN ExpectingArrayOfObjects
    ELSE ValidateFrom(d.items, 1, 0)

----------------------------------------------------------------------------
(* CSV export, get_csv (src/app.py 144-167).  The CSV text is kept as its   *)
(* rows of cells: [hasHeader, headers, rows]; csv.DictWriter and csv.reader *)
(* agree on delimiters and quoting, what the writer does to the values is   *)
(* CellText.                                                                *)

\* d[k] = v on an OrderedDict: a key already there keeps its place
Put(pairs, k, v) ==
    IF HasKey(pairs, k)
    THEN [pairs EXCEPT ![IndexOf(pairs, k)] = [k |-> k, v |-> v]]
    ELSE Append(pairs, [k |-> k, v |-> v])

\* for kk in dct[k].keys(): flat[str(k) + '/' + str(kk)] = dct[k][kk]
RECURSIVE FlattenNested(_, _, _, _)
FlattenNested(flat, k, o, n) ==
    IF n > Len(o) THEN flat
    ELSE FlattenNested(Put(flat, k \o <<"/">> \o o[n].k, o[n].v), k, o, n + 1)

\* for k in dct.keys(): ...
RECURSIVE FlattenFrom(_, _, _)
FlattenFrom(flat, kv, j) ==
    IF j > Len(kv) THEN flat
    ELSE IF IsOrderedDict(kv[j].v)
    THEN FlattenFrom(FlattenNested(flat, kv[j].k, kv[j].v.o, 1), kv, j + 1)
    ELSE FlattenFrom(Put(flat, kv[j].k, Scalar(kv[j].v.t, kv[j].v.s)), kv, j + 1)

FlattenEntry(dct) == FlattenFrom(<<>>, dct.kv, 1)

Flatten(items) == [i \in 1..Len(items) |-> FlattenEntry(items[i])]

\* list(OrderedDict.fromkeys(columns).keys())
RECURSIVE FromKeys(_, _, _)
FromKeys(seen, keys, j) ==
    IF j > Len(keys) THEN seen
    ELSE IF \E n \in 1..Len(seen) : seen[n] = keys[j]
    THEN FromKeys(seen, keys, j + 1)
    ELSE FromKeys(Append(seen, keys[j]), keys, j + 1)

RECURSIVE AllKeys(_, _)
AllKeys(flat_data, i) ==
    IF i > Len(flat_data) THEN <<>>
    ELSE [j \in 1..Len(flat_data[i]) |-> flat_data[i][j].k] \o AllKeys(flat_data, i + 1)

Columns(flat_data) == FromKeys(<<>>, AllKeys(flat_data, 1), 1)

\* what csv.writer writes for a value: None as '', a str as it is, anything
\* else as str(value)
CellText(v) ==
    CASE v.t = "str" -> v.s
      [] v.t = "num" -> v.s
      [] v.t = "null" -> ""
      [] v.t = "bool" -> IF v.s = "true" THEN "True" ELSE "False"

\* DictWriter.writerow: rowdict.get(key, restval) for key in fieldnames
WriteRow(columns, flat) ==
    [j \in 1..Len(columns) |->
        IF HasKey(flat, columns[j]) THEN CellText(Get(flat, columns[j])) ELSE ""]

ExportCsv(items) ==
    LET flat_data == Flatten(items)
        columns == Columns(flat_data)
    IN [hasHeader |-> TRUE,
        headers |-> columns,
        rows |-> [i \in 1..Len(flat_data) |-> WriteRow(columns, flat_data[i])]]

----------------------------------------------------------------------------
(* CSV import, post_data of POST /csv (src/app.py 183-202) *)

\* OrderedDict(zip(headers, row)): pairs up to the shorter of the two, a
\* repeated header keeps its first place and its last cell
RECURSIVE ZipDict(_, _, _, _)
ZipDict(dct, headers, row, j) ==
    IF j > Len(headers) \/ j > Len(row) THEN dct
    ELSE ZipDict(Put(dct, headers[j], row[j]), headers, row, j + 1)

SlashCount(k) == Cardinality({n \in 1..Len(k) : k[n] = "/"})
FirstSlash(k) == CHOOSE n \in 1..Len(k) : k[n] = "/" /\ \A m \in 1..(n - 1) : k[m] # "/"
BeforeSlash(k) == SubSeq(k, 1, FirstSlash(k) - 1)
AfterSlash(k) == SubSeq(k, FirstSlash(k) + 1, Len(k))

SplitsAtFirstSlash(k) == SlashCount(k) >= 1

\* kk = k.split('/'); len(kk) == 2
SplitsInTwo(k) == SlashCount(k) = 1

\* one turn of the loop over dct.keys(); cubic is [exc, kv], exc the
\* exception that ended the loop ("" for none)
CubicStep(cubic, k, v) ==
    IF cubic.exc # "" THEN cubic
    ELSE IF v # "" /\ SplitsInTwo(k)
    THEN IF HasKey(cubic.kv, BeforeSlash(k))
         THEN IF IsOrderedDict(Get(cubic.kv, BeforeSlash(k)))
              THEN [cubic EXCEPT !.kv = Put(cubic.kv, BeforeSlash(k),
                        Obj(Put(Get(cubic.kv, BeforeSlash(k)).o,
                                AfterSlash(k), Scalar("str", v))))]
              ELSE [cubic EXCEPT !.exc = "AttributeError"]
         ELSE [cubic EXCEPT !.kv = Append(cubic.kv,
                   P(BeforeSlash(k), Obj(<<[k |-> AfterSlash(k), v |-> Scalar("str", v)]>>)))]
    ELSE IF v = "True" THEN [cubic EXCEPT !.kv = Put(cubic.kv, k, Bool(TRUE))]
    ELSE IF v # "" THEN [cubic EXCEPT !.kv = Put(cubic.kv, k, Str(v))]
    ELSE cubic

\* cubic after the first j keys of dct
RECURSIVE CubicAfter(_, _)
CubicAfter(dct, j) ==
    IF j = 0 THEN [exc |-> "", kv |-> <<>>]
    ELSE CubicStep(CubicAfter(dct, j - 1), dct[j].k, dct[j].v)

UnflattenRow(headers, row) ==
    LET dct == ZipDict(<<>>, headers, row, 1) IN CubicAfter(dct, Len(dct))

\* the whole loop over the reader: [exc, items]
Unflatten(t) ==
    IF ~t.hasHeader THEN [exc |-> "StopIteration", items |-> <<>>]
    ELSE LET cubics == [r \in 1..Len(t.rows) |-> UnflattenRow(t.headers, t.rows[r])]
         IN IF \E r \in 1..Len(cubics) : cubics[r].exc # ""
            THEN [exc |-> "AttributeError", items |-> <<>>]
            ELSE [exc |-> "", items |-> [r \in 1..Len(cubics) |-> Entry(cubics[r].kv)]]

----------------------------------------------------------------------------
(* data.json and the JSON text.  The text is a sequence of tokens [c, e]:   *)
(* "[" and "]" around one "item" token per element of the array (e the      *)
(* element), or the single token "value" for any text that parses to        *)
(* something other than an array.  A text cut short, empty, or with tokens  *)
(* after the closing "]" does not parse.                                    *)

Tok(c, e) == [c |-> c, e |-> e]
Open == Tok("[", NotAnObject)
Close == Tok("]", NotAnObject)
OtherValue == Tok("value", NotAnObject)

\* json.dump(data, outfile, indent=4) / json.dumps(data)
Serialize(d) ==
    IF d.isList
    THEN <<Open>> \o [i \in 1..Len(d.items) |-> Tok("item", d.items[i])] \o <<Close>>
    ELSE <<OtherValue>>

JsonDecodeError == "Expecting value"

\* json.load(infile, object_pairs_hook=OrderedDict): [exc, d]
Parse(bytes) ==
    IF bytes = <<OtherValue>> THEN [exc |-> "", d |-> NotAList]
    ELSE IF /\ Len(bytes) >= 2
            /\ bytes[1] = Open
            /\ bytes[Len(bytes)] = Close
            /\ \A n \in 2..(Len(bytes) - 1) : bytes[n].c = "item"
    THEN [exc |-> "", d |-> List([n \in 1..(Len(bytes) - 2) |-> bytes[n + 1].e])]
    ELSE [exc |-> "ValueError", d |-> NotAList]

NoCsv == [hasHeader |-> FALSE, headers |-> <<>>, rows |-> <<>>]

\* a response: kind "ok" (the handler returned), "error" (error(msg): HTTP
\* 500 carrying json.dumps(str(msg))), "unhandled" (the exception left the
\* handler); exc the exception raised, json / csv the body returned
Response(kind, exc, msg, json, csv) ==
    [kind |-> kind, exc |-> exc, msg |-> msg, json |-> json, csv |-> csv]
Returned(json, csv) == Response("ok", "", "", json, csv)
\* except (ValueError, IOError) as e: error(e)
Error(exc, msg) == Response("error", exc, msg, <<>>, NoCsv)
Unhandled(exc, msg) == Response("unhandled", exc, msg, <<>>, NoCsv)

MissingFile == [exists |-> FALSE, bytes |-> <<>>]
\* with open('data.json', 'w') as outfile: json.dump(data, outfile, indent=4)
Written(d) == [exists |-> TRUE, bytes |-> Serialize(d)]

LoadDocumentMissingFails(dsk) ==
    IF dsk.exists
    THEN IF Parse(dsk.bytes).exc # "" THEN Error("ValueError", JsonDecodeError)
         ELSE IF validate(Parse(dsk.bytes).d) # Ok
         THEN Error("ValueError", validate(Parse(dsk.bytes).d))
         ELSE Returned(Serialize(Parse(dsk.bytes).d), NoCsv)
    ELSE Error("IOError", "No such file or directory")

\* get_data (src/app.py 110-120)
LoadDocument(dsk) ==
    IF dsk.exists
    THEN IF Parse(dsk.bytes).exc # "" THEN Error("ValueError", JsonDecodeError)
         ELSE IF validate(Parse(dsk.bytes).d) # Ok
         THEN Error("ValueError", validate(Parse(dsk.bytes).d))
         ELSE Returned(Serialize(Parse(dsk.bytes).d), NoCsv)
    ELSE Returned(Serialize(List(<<Entry(<<>>)>>)), NoCsv)

WriteDocumentFirst(dsk, content_type, body) ==
    IF content_type # "application/json"
    THEN [disk |-> dsk, resp |-> Returned(<<>>, NoCsv)]
    ELSE IF Parse(body).exc # ""
    THEN [disk |-> dsk, resp |-> Error("ValueError", JsonDecodeError)]
    ELSE IF validate(Parse(body).d) # Ok
    THEN [disk |-> Written(Parse(body).d),
          resp |-> Error("ValueError", validate(Parse(body).d))]
    ELSE [disk |-> Written(Parse(body).d), resp |-> Returned(<<>>, NoCsv)]

\* post_data of POST /data (src/app.py 126-135): [disk, resp]
WriteDocument(dsk, content_type, body) ==
    IF content_type # "application/json"
    THEN [disk |-> dsk, resp |-> Returned(<<>>, NoCsv)]
    ELSE IF Parse(body).exc # ""
    THEN [disk |-> dsk, resp |-> Error("ValueError", JsonDecodeError)]
    ELSE IF validate(Parse(body).d) # Ok
    THEN [disk |-> dsk, resp |-> Error("ValueError", validate(Parse(body).d))]
    ELSE [disk |-> Written(Parse(body).d), resp |-> Returned(<<>>, NoCsv)]

\* get_csv (src/app.py 141-176): no try around it
ExportDocument(dsk) ==
    IF ~dsk.exists THEN Unhandled("IOError", "No such file or directory")
    ELSE IF Parse(dsk.bytes).exc # "" THEN Unhandled("ValueError", JsonDecodeError)
    ELSE IF validate(Parse(dsk.bytes).d) # Ok
    THEN Unhandled("ValueError", validate(Parse(dsk.bytes).d))
    ELSE Returned(<<>>, ExportCsv(Parse(dsk.bytes).d.items))

\* post_data of POST /csv (src/app.py 182-210): [disk, resp]; upload is
\* [present, table], present FALSE when the form has no 'upload' file
ImportDocument(dsk, upload) ==
    IF ~upload.present
    THEN [disk |-> dsk, resp |-> Unhandled("AttributeError", "upload")]
    ELSE IF Unflatten(upload.table).exc # ""
    THEN [disk |-> dsk, resp |-> Unhandled(Unflatten(upload.table).exc, "")]
    ELSE IF validate(List(Unflatten(upload.table).items)) # Ok
    THEN [disk |-> dsk,
          resp |-> Error("ValueError", validate(List(Unflatten(upload.table).items)))]
    ELSE [disk |-> Written(List(Unflatten(upload.table).items)),
          resp |-> Returned(<<>>, NoCsv)]

----------------------------------------------------------------------------
(* Inputs of validate: parsed JSON values of every shape the rules tell     *)
(* apart, in every order of up to MaxEntries entries.                       *)

Nested == Obj(<<NP(Key("ip"), Str("x"))>>)
NestedBlank == Obj(<<NP(EmptyKey, Str("x"))>>)

TestEntries ==
    { NotAnObject,
      Entry(<<>>),
      Entry(<<P(StackKey, Nested)>>),
      Entry(<<P(Key("name"), Str("x"))>>),
      Entry(<<P(StackKey, Str("x"))>>),
      Entry(<<P(StackKey, Nested), P(SubstKey, Bool(TRUE))>>),
      Entry(<<P(StackKey, Obj(<<>>))>>),
      Entry(<<P(StackKey, Nested), P(EmptyKey, Str("x"))>>),
      Entry(<<P(SpaceKey, Str("x")), P(StackKey, Nested)>>),
      Entry(<<P(StackKey, NestedBlank)>>),
      Entry(<<P(EmptyKey, Obj(<<>>))>>),
      Entry(<<P(StackKey, Num("1")), P(EmptyKey, Obj(<<>>))>>) }

TestDocs == {NotAList} \cup {List(items) : items \in SeqsUpTo(TestEntries, MaxEntries)}

InitStore ==
    /\ disk = MissingFile
    /\ req = [op |-> "none"]
    /\ resp = Response("none", "", "", <<>>, NoCsv)

InitValidate == data = NotAList /\ result = "pending"

NoTable == NoCsv
NotImported == [exc |-> "", items |-> <<>>]

InitCsv == coll = <<>> /\ table = NoTable /\ back = NotImported /\ phase = "start"

InitConc == fh = <<>> /\ saves = <<>>

\* a caller hands validate a parsed value
ValidateInit ==
    /\ data \in TestDocs
    /\ result = "pending"
    /\ InitStore /\ InitCsv /\ InitConc

Validate ==
    /\ result = "pending"
    /\ result' = validate(data)
    /\ UNCHANGED <<data, storeVars, csvVars, concVars>>

NextValidate == Validate

SpecValidate == ValidateInit /\ [][NextValidate]_vars

----------------------------------------------------------------------------
(* Claims about validate *)

ObjectEntries(d) == {i \in 1..Len(d.items) : d.items[i].isObj}

BreaksArrayOfObjects(d) == ~d.isList \/ \E i \in 1..Len(d.items) : ~d.items[i].isObj
BreaksStackShape(my) ==
    my.isObj /\ HasKey(my.kv, StackKey) /\ Get(my.kv, StackKey).t # "obj"
BreaksSubstShape(my) ==
    my.isObj /\ HasKey(my.kv, SubstKey) /\ Get(my.kv, SubstKey).t # "obj"
BreaksNonEmptyObject(d) ==
    \E i \in ObjectEntries(d) : \E j \in 1..Len(d.items[i].kv) :
        d.items[i].kv[j].v.t = "obj" /\ d.items[i].kv[j].v.o = <<>>
BreaksTopLevelKeys(d) ==
    \E i \in ObjectEntries(d) : \E j \in 1..Len(d.items[i].kv) :
        IsBlankKey(d.items[i].kv[j].k)
BreaksNestedKeys(d) ==
    \E i \in ObjectEntries(d) : \E j \in 1..Len(d.items[i].kv) :
        \E n \in 1..Len(d.items[i].kv[j].v.o) : IsBlankKey(d.items[i].kv[j].v.o[n].k)
BreaksOneDefault(d) ==
    Cardinality({i \in ObjectEntries(d) : ~HasKey(d.items[i].kv, StackKey)}) > 1

\* the four rules of the stated precedence that the value breaks, by rank
RulesBroken(d) ==
    {r \in 1..4 : \/ r = 1 /\ BreaksArrayOfObjects(d)
                  \/ r = 2 /\ BreaksNonEmptyObject(d)
                  \/ r = 3 /\ BreaksTopLevelKeys(d)
                  \/ r = 4 /\ BreaksOneDefault(d)}
RuleError(r) ==
    CASE r = 1 -> ExpectingArrayOfObjects
      [] r = 2 -> EmptyObjectNotAllowed
      [] r = 3 -> EmptyKeyNotAllowed
      [] r = 4 -> TooManyDefaults
Earliest(S) == CHOOSE r \in S : \A q \in S : r <= q

\* C4 as stated: when several of the four rules are broken, possibly in
\* different entries, validate raises the error of the earliest rule in the
\* order array-of-objects, empty object, empty key, too many defaults.
\* (Stated for the values that break neither shape rule, which the claim
\* does not rank.)
C4_GlobalPrecedence ==
    ( /\ result # "pending"
      /\ Cardinality(RulesBroken(data)) >= 2
      /\ \A i \in 1..Len(data.items) :
            ~BreaksStackShape(data.items[i]) /\ ~BreaksSubstShape(data.items[i]) )
        => result = RuleError(Earliest(RulesBroken(data)))

\* the per-entry rules one entry breaks, by rank within the entry
EntryRulesBroken(my) ==
    {r \in 1..5 : \/ r = 1 /\ ~my.isObj
                  \/ r = 2 /\ BreaksStackShape(my)
                  \/ r = 3 /\ BreaksSubstShape(my)
                  \/ r = 4 /\ my.isObj /\ \E j \in 1..Len(my.kv) :
                                  my.kv[j].v.t = "obj" /\ my.kv[j].v.o = <<>>
                  \/ r = 5 /\ my.isObj /\ \E j \in 1..Len(my.kv) :
                                  IsBlankKey(my.kv[j].k)}
EntryRuleError(r) ==
    CASE r = 1 -> ExpectingArrayOfObjects
      [] r = 2 -> InvalidStackShape
      [] r = 3 -> InvalidSubstShape
      [] r = 4 -> EmptyObjectNotAllowed
      [] r = 5 -> EmptyKeyNotAllowed
BadEntries(d) == {i \in 1..Len(d.items) : EntryRulesBroken(d.items[i]) # {}}

\* C4 as amended: validate raises the error of the first entry, in collection
\* order, that breaks a per-entry rule, and among the rules that entry breaks
\* the earliest of array-of-objects, stack shape, subst shape, empty object,
\* empty key; too many defaults is raised only when no entry breaks a
\* per-entry rule.
C4_FirstEntryPrecedence ==
    result # "pending" =>
        result = IF ~data.isList THEN ExpectingArrayOfObjects
                 ELSE IF BadEntries(data) # {}
                 THEN EntryRuleError(Earliest(EntryRulesBroken(
                          data.items[Earliest(BadEntries(data))])))
                 ELSE IF BreaksOneDefault(data) THEN TooManyDefaults
                 ELSE Ok

\* two rules broken in different entries, the later entry breaking the rule
\* of higher precedence: the earlier entry's error is the one raised
C4_Witness ==
    /\ result = EmptyKeyNotAllowed
    /\ data.isList /\ Len(data.items) = 2
    /\ ~data.items[2].isObj
    /\ RulesBroken(data) = {1, 3}

\* C5 as stated: a blank (empty or whitespace-only) key anywhere, top-level
\* or inside a nested object, makes validate raise EmptyKeyNotAllowed when no
\* earlier rule fails.
C5_BlankKeyRejected ==
    ( /\ result # "pending"
      /\ BreaksTopLevelKeys(data) \/ BreaksNestedKeys(data)
      /\ ~BreaksArrayOfObjects(data)
      /\ ~BreaksNonEmptyObject(data)
      /\ \A i \in 1..Len(data.items) :
            ~BreaksStackShape(data.items[i]) /\ ~BreaksSubstShape(data.items[i]) )
        => result = EmptyKeyNotAllowed

----------------------------------------------------------------------------
(* The transforms on their own: a stored collection is exported and the     *)
(* export imported again, or an uploaded CSV is imported.                   *)

StackA(v) == P(StackKey, Obj(<<NP(Key("a"), v)>>))

CsvEntries ==
    { Entry(<<>>),
      Entry(<<P(Key("x"), Str("1"))>>),
      Entry(<<StackA(Str("1")), P(Key("x"), Str("1")), P(Key("y"), Str("2"))>>),
      Entry(<<StackA(Str("2")), P(Key("y"), Str("3")), P(Key("x"), Str("4"))>>),
      Entry(<<StackA(Str("1")), P(Key("x"), Bool(TRUE))>>),
      Entry(<<StackA(Str("1")), P(Key("x"), Bool(FALSE))>>),
      Entry(<<StackA(Str("1")), P(Key("x"), Str("True"))>>),
      Entry(<<StackA(Str("1")), P(Key("x"), Str(""))>>),
      Entry(<<StackA(Str("1")), P(Key("x"), Num("1"))>>),
      Entry(<<StackA(Str("1")), P(Key("x"), Null)>>),
      Entry(<<StackA(Bool(TRUE))>>),
      Entry(<<StackA(Bool(FALSE)), P(Key("x"), Str("1"))>>),
      Entry(<<StackA(Str("1")), P(<<"x", "/", "y">>, Str("1"))>>) }

TestColls ==
    {items \in SeqsUpTo(CsvEntries, MaxEntries) : validate(List(items)) = Ok}

HeaderNames ==
    { <<"a">>, <<"a", "/", "b">>, <<"a", "/", "c">>, <<"a", "/", "b", "/", "c">>,
      <<"/", "x">>, <<"x", "/">> }
Cells == {"", "True", "v"}

\* the rows under a header line: its width, or a cell short
RowsUnder(h) == [1..Len(h) -> Cells] \cup [1..(Len(h) - 1) -> Cells]

\* uploads of a header line and at most one row: the rows of a file are
\* imported independently of each other
TestTables ==
    UNION { {[hasHeader |-> TRUE, headers |-> h, rows |-> rs] :
                rs \in {<<>>} \cup {<<row>> : row \in RowsUnder(h)}} :
            h \in SeqsUpTo(HeaderNames, MaxCols) }

CsvInit ==
    /\ \/ coll \in TestColls /\ table = NoTable /\ phase = "stored"
       \/ coll = <<>> /\ table \in TestTables /\ phase = "uploaded"
    /\ back = NotImported
    /\ InitStore /\ InitValidate /\ InitConc

Export ==
    /\ phase = "stored"
    /\ table' = ExportCsv(coll)
    /\ phase' = "exported"
    /\ UNCHANGED <<coll, back, storeVars, validateVars, concVars>>

Import ==
    /\ phase \in {"exported", "uploaded"}
    /\ back' = Unflatten(table)
    /\ phase' = IF phase = "exported" THEN "reimported" ELSE "imported"
    /\ UNCHANGED <<coll, table, storeVars, validateVars, concVars>>

NextCsv == Export \/ Import

SpecCsv == CsvInit /\ [][NextCsv]_vars

----------------------------------------------------------------------------
(* Claims about the transforms *)

\* the scalars entry my holds for a column: under that top-level key, or
\* under group/field
ValuesAt(my, col) ==
    {Scalar(my.kv[j].v.t, my.kv[j].v.s) :
        j \in {j \in 1..Len(my.kv) : my.kv[j].k = col /\ my.kv[j].v.t # "obj"}}
    \cup UNION { {my.kv[j].v.o[n].v :
                    n \in {n \in 1..Len(my.kv[j].v.o) :
                            my.kv[j].k \o <<"/">> \o my.kv[j].v.o[n].k = col}} :
                 j \in 1..Len(my.kv) }

\* C6 as stated: in the export every boolean true is the cell text True and
\* every boolean false is an empty cell, the same as a column the entry does
\* not have.
C6_FalseIsBlank ==
    phase = "exported" =>
        \A i \in 1..Len(coll) : \A c \in 1..Len(table.headers) :
            LET vs == ValuesAt(coll[i], table.headers[c]) IN
            /\ vs = {} => table.rows[i][c] = ""
            /\ \A v \in vs : v = Scalar("bool", "true") => table.rows[i][c] = "True"
            /\ \A v \in vs : v = Scalar("bool", "false") => table.rows[i][c] = ""

\* no value of the collection falls under a stated lossy case: every scalar
\* is a non-empty string other than the text True
IsPlainText(v) == v.t = "str" /\ v.s # "" /\ v.s # "True"
NoLossyCase(items) ==
    \A i \in 1..Len(items) : \A j \in 1..Len(items[i].kv) :
        IF items[i].kv[j].v.t = "obj"
        THEN \A n \in 1..Len(items[i].kv[j].v.o) : IsPlainText(items[i].kv[j].v.o[n].v)
        ELSE IsPlainText(items[i].kv[j].v)

\* C3 as stated: importing the export of an accepted collection with
\* single-level nesting gives the collection back, entries, keys and nesting
\* in the same order, up to the stated lossy cases.  (Stated for the
\* collections none of whose values is a lossy case, which must come back
\* as they are.)
C3_RoundTrip ==
    (phase = "reimported" /\ NoLossyCase(coll)) =>
        back.exc = "" /\ back.items = coll

\* the import rule as the claim states it: split on the first '/', nested
\* only for two non-empty parts and a non-blank cell
ClaimNested(k, v) ==
    /\ v # ""
    /\ SlashCount(k) >= 1
    /\ BeforeSlash(k) # <<>>
    /\ AfterSlash(k) # <<>>
TopLevel(kv, k, v) ==
    IF v = "True" THEN Put(kv, k, Bool(TRUE))
    ELSE IF v = "" THEN kv
    ELSE Put(kv, k, Str(v))
Merge(kv, g, f, v) ==
    IF HasKey(kv, g)
    THEN Put(kv, g, Obj(Put(Get(kv, g).o, f, Scalar("str", v))))
    ELSE Append(kv, P(g, Obj(<<[k |-> f, v |-> Scalar("str", v)]>>)))
ClaimStep(kv, k, v) ==
    IF ClaimNested(k, v) THEN Merge(kv, BeforeSlash(k), AfterSlash(k), v)
    ELSE TopLevel(kv, k, v)
RECURSIVE ClaimAfter(_, _)
ClaimAfter(dct, j) ==
    IF j = 0 THEN <<>> ELSE ClaimStep(ClaimAfter(dct, j - 1), dct[j].k, dct[j].v)
\* the claim is silent on a group whose key already holds a scalar
ClaimSilent(dct) ==
    \E j \in 1..Len(dct) :
        /\ ClaimNested(dct[j].k, dct[j].v)
        /\ HasKey(ClaimAfter(dct, j - 1), BeforeSlash(dct[j].k))
        /\ Get(ClaimAfter(dct, j - 1), BeforeSlash(dct[j].k)).t # "obj"
Dct(r) == ZipDict(<<>>, table.headers, table.rows[r], 1)

\* C9 as stated: each header is split on its first '/'; the cell is merged
\* into the nested object of the group only for two non-empty parts and a
\* non-blank cell; otherwise the full header is a top-level key, true for
\* the text True, omitted for a blank cell, the raw string otherwise.
C9_SplitOnFirstSlash ==
    (phase = "imported" /\ back.exc = "") =>
        \A r \in 1..Len(table.rows) :
            ~ClaimSilent(Dct(r)) =>
                back.items[r] = Entry(ClaimAfter(Dct(r), Len(Dct(r))))

\* the rule as amended: nested exactly when the name holds exactly one '/'
\* (either part may be empty) and the cell is non-blank
AmendedNested(k, v) ==
    v # "" /\ Cardinality({n \in 1..Len(k) : k[n] = "/"}) = 1
RECURSIVE AmendedAfter(_, _)
AmendedAfter(dct, j) ==
    IF j = 0 THEN [exc |-> "", kv |-> <<>>]
    ELSE LET was == AmendedAfter(dct, j - 1)
             k == dct[j].k
             v == dct[j].v
         IN IF was.exc # "" THEN was
            ELSE IF ~AmendedNested(k, v) THEN [was EXCEPT !.kv = TopLevel(was.kv, k, v)]
            ELSE IF HasKey(was.kv, BeforeSlash(k)) /\ Get(was.kv, BeforeSlash(k)).t # "obj"
            THEN [was EXCEPT !.exc = "AttributeError"]
            ELSE [was EXCEPT !.kv = Merge(was.kv, BeforeSlash(k), AfterSlash(k), v)]

\* C9 as amended: each header is split on every '/'; when the cell is
\* non-blank and the split gives exactly two parts, empty or not, the raw
\* cell is merged as that field into the nested object of that group, and
\* the import ends in an uncaught AttributeError when the group's key
\* already holds a scalar; in every other case (no '/', two or more '/', or
\* a blank cell) the full header is a top-level key, true for the text True,
\* omitted for a blank cell, the raw string otherwise.
C9_SplitOnEverySlash ==
    phase = "imported" =>
        LET after == [r \in 1..Len(table.rows) |-> AmendedAfter(Dct(r), Len(Dct(r)))]
        IN IF \E r \in 1..Len(after) : after[r].exc # ""
           THEN back.exc = "AttributeError"
           ELSE /\ back.exc = ""
                /\ back.items = [r \in 1..Len(after) |-> Entry(after[r].kv)]

\* a header with two slashes and a non-blank cell came out as a top-level
\* key, and a header ending in a slash made a nested object
C9_Witness ==
    /\ phase = "imported" /\ back.exc = ""
    /\ table.headers = << <<"a", "/", "b", "/", "c">>, <<"x", "/">> >>
    /\ table.rows = << <<"v", "True">> >>
    /\ back.items = << Entry(<< P(<<"a", "/", "b", "/", "c">>, Str("v")),
                                P(<<"x">>, Obj(<<[k |-> <<>>, v |-> Scalar("str", "True")]>>)) >>) >>

----------------------------------------------------------------------------
(* The document store served one request at a time *)

StoreEntries ==
    { NotAnObject,
      Entry(<<>>),
      Entry(<<P(StackKey, Nested)>>),
      Entry(<<P(StackKey, Nested), P(Key("x"), Bool(TRUE))>>),
      Entry(<<P(StackKey, Str("x"))>>),
      Entry(<<P(StackKey, Nested), P(SubstKey, Obj(<<>>))>> ) }

StoreDocs == {NotAList} \cup {List(items) : items \in SeqsUpTo(StoreEntries, MaxEntries)}

\* request bodies and uploaded files: the texts of StoreDocs, an empty text
\* and a text cut short
Texts == {Serialize(d) : d \in StoreDocs} \cup {<<>>, <<Open, Tok("item", Entry(<<>>))>>}

\* files uploaded under the name data.json: no text, a text cut short, a
\* bare value, two entries without stack, an accepted collection
FileTexts ==
    { <<>>,
      <<Open, Tok("item", Entry(<<>>))>>,
      Serialize(NotAList),
      Serialize(List(<<Entry(<<>>), Entry(<<>>)>>)),
      Serialize(List(<<Entry(<<P(StackKey, Nested)>>)>>)) }

ContentTypes == {"application/json", "text/plain"}

Table(headers, rows) == [hasHeader |-> TRUE, headers |-> headers, rows |-> rows]
Uploads ==
    {[present |-> FALSE, table |-> NoCsv], [present |-> TRUE, table |-> NoCsv]}
    \cup {[present |-> TRUE, table |-> t] : t \in
            { Table(<<>>, <<>>),
              Table(<<>>, << <<>> >>),
              Table(<< <<"stack", "/", "ip">>, <<"x">> >>, << <<"1", "True">> >>),
              Table(<< <<"stack", "/", "ip">>, <<"x">> >>, << <<"1", "True">>, <<"", "v">> >>),
              Table(<< <<"stack", "/", "ip">>, <<"x">> >>, << <<"", "v">>, <<"", "w">> >>),
              Table(<< <<"stack">>, <<"x">> >>, << <<"1", "True">> >>),
              Table(<< <<"stack", "/">>, <<"/", "x">> >>, << <<"1", "">> >>),
              Table(<< <<"stack", "/">>, <<"/", "x">> >>, << <<"1", "v">> >>),
              Table(<< <<"x">>, <<"x", "/", "y">> >>, << <<"1", "v">> >>) }}

GetData ==
    /\ req' = [op |-> "GET /data"]
    /\ resp' = LoadDocument(disk)
    /\ UNCHANGED <<disk, validateVars, csvVars, concVars>>

PostData ==
    \E content_type \in ContentTypes, body \in Texts :
        /\ req' = [op |-> "POST /data"]
        /\ disk' = WriteDocument(disk, content_type, body).disk
        /\ resp' = WriteDocument(disk, content_type, body).resp
        /\ UNCHANGED <<validateVars, csvVars, concVars>>

GetCsv ==
    /\ req' = [op |-> "GET /csv"]
    /\ resp' = ExportDocument(disk)
    /\ UNCHANGED <<disk, validateVars, csvVars, concVars>>

PostCsv ==
    \E upload \in Uploads :
        /\ req' = [op |-> "POST /csv"]
        /\ disk' = ImportDocument(disk, upload).disk
        /\ resp' = ImportDocument(disk, upload).resp
        /\ UNCHANGED <<validateVars, csvVars, concVars>>

\* post_file (src/app.py 66-74) with an upload named data.json and an empty
\* folder: upload.save('data.json', overwrite=True)
PostFile ==
    \E bytes \in FileTexts :
        /\ req' = [op |-> "POST /file"]
        /\ disk' = [exists |-> TRUE, bytes |-> bytes]
        /\ resp' = Returned(<<>>, NoCsv)
        /\ UNCHANGED <<validateVars, csvVars, concVars>>

StoreInit == InitStore /\ InitValidate /\ InitCsv /\ InitConc

\* the document API alone
NextApi == GetData \/ PostData \/ GetCsv \/ PostCsv
SpecApi == StoreInit /\ [][NextApi]_vars

\* the document API and the file upload
Next == GetData \/ PostData \/ GetCsv \/ PostCsv \/ PostFile
Spec == StoreInit /\ [][Next]_vars

----------------------------------------------------------------------------
(* Claims about the document store *)

IsWrite(r) == r.op \in {"POST /data", "POST /csv"}
EmptyCollection == List(<<Entry(<<>>)>>)

\* C1: a write-document request or a CSV import that is rejected (the body
\* does not parse, or validate refuses the collection) leaves data.json as
\* it was, absent or not, so a load after it answers what a load before it
\* answered.
C1_RejectedLeavesDocument ==
    [][(IsWrite(req') /\ resp'.kind = "error")
          => (disk' = disk /\ LoadDocument(disk') = LoadDocument(disk))]_vars

\* a document is stored and loads, and the last request was a rejected write
C1_Witness ==
    /\ req.op = "POST /data" /\ resp.kind = "error" /\ resp.msg = TooManyDefaults
    /\ disk.exists /\ Len(disk.bytes) = 4
    /\ LoadDocument(disk).kind = "ok"

\* C7 as stated: every validation or parse failure of a document operation
\* ends in the structured error carrying the reason; none leaves the handler
\* as an unhandled exception.
C7_FailuresAreStructured ==
    resp.exc = "ValueError" => (resp.kind = "error" /\ resp.msg # "")

C10_StoredDocumentIsValid ==
    disk.exists =>
        LET d == Parse(disk.bytes).d IN
        /\ Parse(disk.bytes).exc = ""
        /\ d.isList
        /\ \A i \in 1..Len(d.items) :
              /\ d.items[i].isObj
              /\ \A j \in 1..Len(d.items[i].kv) :
                    /\ d.items[i].kv[j].k \in {StackKey, SubstKey}
                          => d.items[i].kv[j].v.t = "obj"
                    /\ d.items[i].kv[j].v.t = "obj" => d.items[i].kv[j].v.o # <<>>
        /\ ~BreaksOneDefault(d)
        /\ LoadDocument(disk).kind = "ok"

\* a stored two-entry document survived a rejected import
C10_Witness ==
    /\ disk.exists /\ Len(disk.bytes) = 4
    /\ req.op = "POST /csv" /\ resp.kind = "error"

----------------------------------------------------------------------------
(* The document store under the threaded server: the handlers of two        *)
(* requests interleave at their file operations.  open(.., 'w') truncates   *)
(* data.json, the text then reaches the file in one or more writes at the   *)
(* handle's own offset, and the with block closes the handle.               *)

Threads == 1..NumThreads

SaveDocs ==
    { List(<<Entry(<<P(StackKey, Nested)>>)>>),
      List(<<Entry(<<P(StackKey, Nested)>>), Entry(<<P(Key("name"), Str("x"))>>)>>) }

Idle == [pc |-> "idle", buf |-> <<>>, pos |-> 0, seen |-> Response("none", "", "", <<>>, NoCsv)]

Nul == Tok("NUL", NotAnObject)

\* write(2) of chunk at offset pos: bytes past the end of the file are
\* appended, a hole before pos reads as NUL
Overwrite(bytes, pos, chunk) ==
    LET end == IF Len(bytes) > pos + Len(chunk) THEN Len(bytes) ELSE pos + Len(chunk)
    IN [n \in 1..end |->
           IF n > pos /\ n <= pos + Len(chunk) THEN chunk[n - pos]
           ELSE IF n <= Len(bytes) THEN bytes[n]
           ELSE Nul]

ConcInit ==
    /\ disk \in {MissingFile} \cup {Written(d) : d \in SaveDocs}
    /\ fh = [t \in Threads |-> Idle]
    /\ saves = <<>>
    /\ req = [op |-> "none"]
    /\ resp = Response("none", "", "", <<>>, NoCsv)
    /\ InitValidate /\ InitCsv

\* POST /data with an accepted body, up to open('data.json', 'w')
OpenForWrite(t) ==
    \E d \in SaveDocs :
        /\ fh[t].pc = "idle"
        /\ WriteDocument(disk, "application/json", Serialize(d)).resp.kind = "ok"
        /\ disk' = [exists |-> TRUE, bytes |-> <<>>]
        /\ fh' = [fh EXCEPT ![t] = [Idle EXCEPT !.pc = "open", !.buf = Serialize(d)]]
        /\ UNCHANGED <<saves, req, resp, validateVars, csvVars>>

\* json.dump: the next part of the text is written through the handle
WriteSome(t) ==
    \E n \in 1..(Len(fh[t].buf) - fh[t].pos) :
        /\ fh[t].pc = "open"
        /\ disk' = [disk EXCEPT !.bytes =
                        Overwrite(disk.bytes, fh[t].pos,
                                  SubSeq(fh[t].buf, fh[t].pos + 1, fh[t].pos + n))]
        /\ fh' = [fh EXCEPT ![t].pos = fh[t].pos + n]
        /\ UNCHANGED <<saves, req, resp, validateVars, csvVars>>

\* the with block ends once the whole text is written
CloseFile(t) ==
    /\ fh[t].pc = "open"
    /\ fh[t].pos = Len(fh[t].buf)
    /\ fh' = [fh EXCEPT ![t].pc = "saved"]
    /\ saves' = Append(saves, fh[t].buf)
    /\ UNCHANGED <<disk, req, resp, validateVars, csvVars>>

\* GET /data: the file is read and answered
ReadFile(t) ==
    /\ fh[t].pc = "idle"
    /\ fh' = [fh EXCEPT ![t] = [Idle EXCEPT !.pc = "loaded", !.seen = LoadDocument(disk)]]
    /\ UNCHANGED <<disk, saves, req, resp, validateVars, csvVars>>

NextConc == \E t \in Threads : OpenForWrite(t) \/ WriteSome(t) \/ CloseFile(t) \/ ReadFile(t)

SpecConc == ConcInit /\ [][NextConc]_vars

\* C2 as stated: a load interleaved with saves answers a complete document,
\* the previous or a new one, never an empty or half-written one; and when
\* the saves have ended data.json holds the complete document of the save
\* that ended last.
C2_SaveIsAtomic ==
    /\ \A t \in Threads :
          fh[t].pc = "loaded" =>
              /\ fh[t].seen.kind = "ok"
              /\ fh[t].seen.json \in
                    {Serialize(EmptyCollection)} \cup {Serialize(d) : d \in SaveDocs}
    /\ (saves # <<>> /\ \A t \in Threads : fh[t].pc # "open")
          => disk.bytes = saves[Len(saves)]

====
